---- MODULE Spec2Model ----
(***************************************************************************)
(* A model of xbar-stocks-rs (src/src/main.rs, src/src/lib.rs): the CSV    *)
(* load, the consolidation of positions, the rayon fetch of one price per  *)
(* position, the aggregation, ranking and rendering of the report.         *)
(*                                                                         *)
(* f64 values are modelled as exact rationals in sign-magnitude form, with *)
(* signed zeros, the two infinities and NaN; rounding and overflow of      *)
(* finite values are not modelled.                                         *)
(***************************************************************************)
EXTENDS Integers, Sequences, FiniteSets

VARIABLES
    pc,                     \* where main() is
    csv,                    \* the input file
    positions,              \* main.rs:89
    consolidated_positions, \* main.rs:100
    running,                \* indices of the positions whose fetch is in flight
    outcome,                \* what the fetch of each finished position returned
    results,                \* main.rs:110
    total_investment,       \* main.rs:122
    total_current_value,    \* main.rs:123
    position_data,          \* main.rs:124
    position_lines,         \* main.rs:164
    stdout,                 \* the lines println! has written
    stderr,                 \* the lines eprintln! has written
    exit_code,              \* None while main() runs, then Some(code)
    request,                \* lib.rs: the (ticker, response) handed to the fetcher
    fetched                 \* lib.rs: what fetch_latest_price returned for it

vars == <<pc, csv, positions, consolidated_positions, running, outcome, results,
          total_investment, total_current_value, position_data, position_lines,
          stdout, stderr, exit_code, request, fetched>>

(***************************************************************************)
(* Bounds of the model.                                                    *)
(***************************************************************************)
MaxRows == 2
MaxPositions == 8
MaxResults == 3
MaxMarkers == 2

(***************************************************************************)
(* f64                                                                     *)
(***************************************************************************)
RECURSIVE Gcd(_, _)
Gcd(a, b) == IF b = 0 THEN a ELSE Gcd(b, a % b)

NaN == [k |-> "nan", s |-> 1, n |-> 0, d |-> 1]

Inf(s) == [k |-> "inf", s |-> s, n |-> 0, d |-> 1]

NEG_INFINITY == Inf(-1)

\* the finite value s*n/d (n >= 0, d > 0), in lowest terms; n = 0 is a signed zero
Fin(s, n, d) ==
    LET g == Gcd(n, d)
    IN  [k |-> "fin", s |-> s, n |-> n \div g, d |-> d \div g]

\* an integer literal
F(i) == IF i < 0 THEN Fin(-1, -i, 1) ELSE Fin(1, i, 1)

IsNaN(x) == x.k = "nan"

IsZero(x) == x.k = "fin" /\ x.n = 0

FNeg(x) == IF IsNaN(x) THEN x ELSE [x EXCEPT !.s = -x.s]

FAbs(x) == IF IsNaN(x) THEN x ELSE [x EXCEPT !.s = 1]

FMul(a, b) ==
    IF IsNaN(a) \/ IsNaN(b) THEN NaN
    ELSE IF a.k = "inf" \/ b.k = "inf"
         THEN IF IsZero(a) \/ IsZero(b) THEN NaN ELSE Inf(a.s * b.s)
         ELSE Fin(a.s * b.s, a.n * b.n, a.d * b.d)

FDiv(a, b) ==
    IF IsNaN(a) \/ IsNaN(b) THEN NaN
    ELSE IF a.k = "inf"
         THEN IF b.k = "inf" THEN NaN ELSE Inf(a.s * b.s)
         ELSE IF b.k = "inf" THEN Fin(a.s * b.s, 0, 1)
         ELSE IF IsZero(b)
              THEN IF IsZero(a) THEN NaN ELSE Inf(a.s * b.s)
              ELSE Fin(a.s * b.s, a.n * b.d, a.d * b.n)

FAdd(a, b) ==
    IF IsNaN(a) \/ IsNaN(b) THEN NaN
    ELSE IF a.k = "inf"
         THEN IF b.k = "inf" /\ b.s # a.s THEN NaN ELSE a
         ELSE IF b.k = "inf" THEN b
         ELSE LET v == a.s * a.n * b.d + b.s * b.n * a.d
              IN  IF v = 0
                  THEN Fin(IF a.s = -1 /\ b.s = -1 THEN -1 ELSE 1, 0, 1)
                  ELSE IF v < 0 THEN Fin(-1, -v, a.d * b.d)
                                ELSE Fin(1, v, a.d * b.d)

FSub(a, b) == FAdd(a, FNeg(b))

\* f64::partial_cmp: None when either side is NaN; -0.0 equals 0.0
PartialCmp(a, b) ==
    IF IsNaN(a) \/ IsNaN(b) THEN "None"
    ELSE IF a.k = "inf" \/ b.k = "inf"
         THEN IF a.k = b.k /\ a.s = b.s THEN "Equal"
              ELSE IF a.k = "inf" THEN (IF a.s = 1 THEN "Greater" ELSE "Less")
              ELSE (IF b.s = 1 THEN "Less" ELSE "Greater")
         ELSE LET l == a.s * a.n * b.d
                  r == b.s * b.n * a.d
              IN  IF l < r THEN "Less" ELSE IF l > r THEN "Greater" ELSE "Equal"

\* x >= 0.0
GeZero(x) == PartialCmp(x, F(0)) \in {"Greater", "Equal"}

(***************************************************************************)
(* Result<T, E>                                                            *)
(***************************************************************************)
Ok(v) == [ok |-> TRUE, val |-> v]

Err(e) == [ok |-> FALSE, val |-> e]

\* Option<T>
None == <<>>

Some(x) == <<x>>

(***************************************************************************)
(* Loading the CSV file (main.rs:16-27)                                    *)
(***************************************************************************)
Position(t, b, s) == [ticker |-> t, buy_price |-> b, shares |-> s]

\* a file: whether it can be opened, and its rows
File(readable, rows) == [readable |-> readable, rows |-> rows]

Unreadable == File(FALSE, <<>>)

\* a row: whether it deserializes into a Position, and the Position
Row(p) == [valid |-> TRUE, position |-> p]

Malformed == [valid |-> FALSE, position |-> Position(<<>>, F(0), F(0))]

\* the rows are deserialized in order; the first bad row ends the load
RECURSIVE DeserializeRows(_, _)
DeserializeRows(rows, acc) ==
    IF rows = <<>> THEN Ok(acc)
    ELSE IF ~Head(rows).valid THEN Err(<<"CSV deserialize error">>)
    ELSE DeserializeRows(Tail(rows), Append(acc, Head(rows).position))

load_positions_from_csv(file) ==
    IF ~file.readable THEN Err(<<"No such file or directory">>)
    ELSE DeserializeRows(file.rows, <<>>)

(***************************************************************************)
(* Consolidation (main.rs:60-81)                                           *)
(***************************************************************************)
Range(seq) == {seq[i] : i \in DOMAIN seq}

\* the HashMap after the accumulation loop: ticker -> (total cost, total shares)
RECURSIVE Accumulate(_, _)
Accumulate(ps, map) ==
    IF ps = <<>> THEN map
    ELSE LET p == Head(ps)
             entry == IF p.ticker \in DOMAIN map THEN map[p.ticker]
                      ELSE <<F(0), F(0)>>
             upd == <<FAdd(entry[1], FMul(p.buy_price, p.shares)),
                      FAdd(entry[2], p.shares)>>
         IN  Accumulate(Tail(ps),
                 [t \in DOMAIN map \cup {p.ticker} |->
                     IF t = p.ticker THEN upd ELSE map[t]])

EmptyMap == [t \in {} |-> <<F(0), F(0)>>]

\* one entry of the map turned into a Position
WeightedAverage(ticker, entry) ==
    Position(ticker, FDiv(entry[1], entry[2]), entry[2])

\* the sequences that hold each element of S once: the orders in which
\* HashMap::into_iter may yield the keys
Orders(S) ==
    {o \in [1..Cardinality(S) -> S] : \A i, j \in DOMAIN o : i # j => o[i] # o[j]}

consolidate_positions(ps, order) ==
    LET map == Accumulate(ps, EmptyMap)
    IN  [i \in DOMAIN order |-> WeightedAverage(order[i], map[order[i]])]

(***************************************************************************)
(* The price fetcher (lib.rs:26-64)                                        *)
(***************************************************************************)
LowerChar(c) == IF c = "A" THEN "a" ELSE IF c = "B" THEN "b" ELSE c

to_lowercase(str) == [i \in DOMAIN str |-> LowerChar(str[i])]

Digits == {"0", "1", "2", "3", "4", "5", "6", "7", "8", "9"}

DigitValue(c) ==
    CASE c = "0" -> 0 [] c = "1" -> 1 [] c = "2" -> 2 [] c = "3" -> 3
      [] c = "4" -> 4 [] c = "5" -> 5 [] c = "6" -> 6 [] c = "7" -> 7
      [] c = "8" -> 8 [] c = "9" -> 9

\* one character of the pattern built from the ticker against one character
\* of the text: the ticker is pasted into the pattern unescaped, so its '.'
\* is the regex wildcard
PatternCharMatches(pc_, c) == pc_ = "." \/ pc_ = c

\* id=aq_<ticker>_c4 against the id of a span
TickerPatternMatches(pattern, tk) ==
    /\ Len(pattern) = Len(tk)
    /\ \A i \in DOMAIN pattern : PatternCharMatches(pattern[i], tk[i])

\* ([0-9]+\.?[0-9]*) against the whole text between '>' and '</span>'
NumberMatches(val) ==
    /\ Len(val) >= 1
    /\ val[1] \in Digits
    /\ \A i \in DOMAIN val : val[i] \in Digits \cup {"."}
    /\ Cardinality({i \in DOMAIN val : val[i] = "."}) <= 1

\* str::parse::<f64> of a text NumberMatches accepts
RECURSIVE ParseDigits(_, _, _, _)
ParseDigits(val, num, den, afterDot) ==
    IF val = <<>> THEN Fin(1, num, den)
    ELSE IF Head(val) = "." THEN ParseDigits(Tail(val), num, den, TRUE)
    ELSE ParseDigits(Tail(val), num * 10 + DigitValue(Head(val)),
                     IF afterDot THEN den * 10 ELSE den, afterDot)

ParseF64(val) == ParseDigits(val, 0, 1, FALSE)

\* the whole pattern against one span: [^>]+ needs at least one character
\* between _c4 and '>'
SpanMatches(pattern, span) ==
    /\ TickerPatternMatches(pattern, span.tk)
    /\ Len(span.attrs) >= 1
    /\ NumberMatches(span.val)

\* Regex::captures: the leftmost match
RECURSIVE Captures(_, _)
Captures(pattern, body) ==
    IF body = <<>> THEN Err("no match")
    ELSE IF SpanMatches(pattern, Head(body)) THEN Ok(Head(body).val)
    ELSE Captures(pattern, Tail(body))

NotFound == <<"Could not find price in response">>

\* Display of http::StatusCode
StatusText(status) ==
    CASE status = 200 -> "200 OK"
      [] status = 404 -> "404 Not Found"
      [] OTHER -> "other"

fetch_latest_price(ticker, response) ==
    IF response.kind = "send_error" THEN Err(<<"error sending request">>)
    ELSE IF response.status # 200
         THEN Err(<<"Invalid status code HTTP", StatusText(response.status)>>)
    ELSE IF ~response.utf8 THEN Err(<<"Failed to decode response">>)
    ELSE LET captures == Captures(to_lowercase(ticker), response.body)
         IN  IF captures.ok THEN Ok(ParseF64(captures.val))
             ELSE Err(NotFound)

SendError == [kind |-> "send_error", status |-> 0, utf8 |-> TRUE, body |-> <<>>]

Http(status, utf8, body) ==
    [kind |-> "http", status |-> status, utf8 |-> utf8, body |-> body]

Span(tk, attrs, val) == [tk |-> tk, attrs |-> attrs, val |-> val]

(***************************************************************************)
(* main(): load and consolidate (main.rs:83-100)                           *)
(***************************************************************************)
NoOutcome == [i \in {} |-> Err(<<>>)]

LoadOk(loaded) ==
    /\ positions' = loaded
    /\ pc' = "consolidate"
    /\ UNCHANGED <<stderr, exit_code>>

\* a load error that is reported and then treated as an empty portfolio
LoadErrContinues(e) ==
    /\ stderr' = <<<<"Error loading positions from", e>>>>
    /\ positions' = <<>>
    /\ pc' = "consolidate"
    /\ UNCHANGED exit_code

\* main.rs:91-96: three lines on stderr, then std::process::exit(1)
LoadErr(e) ==
    /\ stderr' = <<<<"Error loading positions from", e>>,
                   <<"Usage:", "[path/to/data.csv]">>,
                   <<"Default location: ~/.stocks/data.csv">>>>
    /\ exit_code' = Some(1)
    /\ pc' = "exited"
    /\ UNCHANGED positions

Load ==
    /\ pc = "load"
    /\ LET loaded == load_positions_from_csv(csv)
       IN  IF loaded.ok THEN LoadOk(loaded.val) ELSE LoadErr(loaded.val)
    /\ UNCHANGED <<csv, consolidated_positions, running, outcome, results,
                   total_investment, total_current_value, position_data,
                   position_lines, stdout, request, fetched>>

Consolidate ==
    /\ pc = "consolidate"
    /\ \E order \in Orders({p.ticker : p \in Range(positions)}) :
           consolidated_positions' = consolidate_positions(positions, order)
    /\ pc' = "fetch"
    /\ UNCHANGED <<csv, positions, running, outcome, results, total_investment,
                   total_current_value, position_data, position_lines, stdout,
                   stderr, exit_code, request, fetched>>

(***************************************************************************)
(* main(): the fetch of every position on the pool (main.rs:102-119)       *)
(***************************************************************************)
\* main.rs:105: .num_threads(7)
NumThreads == 7

\* a pool that starts a thread for every task
WorkerAlwaysFree == TRUE

\* a thread of the pool is idle
WorkerFree == Cardinality(running) < NumThreads

Pending(i) ==
    /\ i \in DOMAIN consolidated_positions
    /\ i \notin running
    /\ i \notin DOMAIN outcome

\* a worker takes position i and calls fetch_latest_price
FetchStart(i) ==
    /\ pc = "fetch"
    /\ Pending(i)
    /\ WorkerFree
    /\ running' = running \cup {i}
    /\ UNCHANGED <<pc, csv, positions, consolidated_positions, outcome, results,
                   total_investment, total_current_value, position_data,
                   position_lines, stdout, stderr, exit_code, request, fetched>>

\* what the source may answer to the request for a ticker
Responses(ticker) ==
    {SendError,
     Http(404, TRUE, <<>>),
     Http(200, TRUE, <<>>),
     Http(200, TRUE, <<Span(to_lowercase(ticker), <<"|">>, <<"3">>)>>)}

\* the answers told apart only by whether the fetch succeeds
TwoResponses(ticker) ==
    {SendError,
     Http(200, TRUE, <<Span(to_lowercase(ticker), <<"|">>, <<"3">>)>>)}

\* the call of position i returns, and its worker is idle again
FetchFinish(i, responses) ==
    /\ pc = "fetch"
    /\ i \in running
    /\ \E response \in responses :
           outcome' = [j \in DOMAIN outcome \cup {i} |->
               IF j = i
               THEN fetch_latest_price(consolidated_positions[i].ticker, response)
               ELSE outcome[j]]
    /\ running' = running \ {i}
    /\ UNCHANGED <<pc, csv, positions, consolidated_positions, results,
                   total_investment, total_current_value, position_data,
                   position_lines, stdout, stderr, exit_code, request, fetched>>

\* every position's closure has run
AllFetched == \A i \in DOMAIN consolidated_positions : i \in DOMAIN outcome

\* a collect that keeps only the positions whose fetch succeeded
RECURSIVE CollectFrom(_)
CollectFrom(i) ==
    IF i > Len(consolidated_positions) THEN <<>>
    ELSE IF outcome[i].ok
         THEN <<<<consolidated_positions[i], outcome[i]>>>> \o CollectFrom(i + 1)
         ELSE CollectFrom(i + 1)

CollectSucceeded == CollectFrom(1)

\* par_iter().map(..).collect(): an indexed collect, entry i from position i
Collect ==
    [i \in DOMAIN consolidated_positions |->
        <<consolidated_positions[i], outcome[i]>>]

\* pool.install returns
FetchJoin ==
    /\ pc = "fetch"
    /\ AllFetched
    /\ results' = Collect
    /\ pc' = "aggregate"
    /\ UNCHANGED <<csv, positions, consolidated_positions, running, outcome,
                   total_investment, total_current_value, position_data,
                   position_lines, stdout, stderr, exit_code, request, fetched>>

(***************************************************************************)
(* main(): totals and per-position records (main.rs:121-158)               *)
(***************************************************************************)
\* an iteration that counts the investment of succeeded positions only
AggregateStepSucceededOnly(acc, position, result) ==
    LET investment == FMul(position.buy_price, position.shares)
    IN  IF result.ok
        THEN [total_investment |-> FAdd(acc.total_investment, investment),
              total_current_value |->
                  FAdd(acc.total_current_value, FMul(result.val, position.shares)),
              position_data |-> Append(acc.position_data,
                  [ticker |-> position.ticker,
                   buy_price |-> position.buy_price,
                   current_price |-> result.val,
                   change_percent |->
                       FMul(FDiv(FSub(result.val, position.buy_price),
                                 position.buy_price), F(100)),
                   profit_loss |-> FSub(FMul(result.val, position.shares), investment),
                   error |-> None])]
        ELSE [total_investment |-> acc.total_investment,
              total_current_value |-> acc.total_current_value,
              position_data |-> Append(acc.position_data,
                  [ticker |-> position.ticker,
                   buy_price |-> position.buy_price,
                   current_price |-> F(0),
                   change_percent |-> NEG_INFINITY,
                   profit_loss |-> F(0),
                   error |-> Some(result.val)])]

\* one iteration of the loop over results
AggregateStep(acc, position, result) ==
    LET investment == FMul(position.buy_price, position.shares)
    IN  IF result.ok
        THEN LET current_price == result.val
                 current_value == FMul(current_price, position.shares)
                 change_percent ==
                     FMul(FDiv(FSub(current_price, position.buy_price),
                               position.buy_price), F(100))
                 profit_loss == FSub(current_value, investment)
             IN  [total_investment |-> FAdd(acc.total_investment, investment),
                  total_current_value |->
                      FAdd(acc.total_current_value, current_value),
                  position_data |-> Append(acc.position_data,
                      [ticker |-> position.ticker,
                       buy_price |-> position.buy_price,
                       current_price |-> current_price,
                       change_percent |-> change_percent,
                       profit_loss |-> profit_loss,
                       error |-> None])]
        ELSE [total_investment |-> FAdd(acc.total_investment, investment),
              total_current_value |-> acc.total_current_value,
              position_data |-> Append(acc.position_data,
                  [ticker |-> position.ticker,
                   buy_price |-> position.buy_price,
                   current_price |-> F(0),
                   change_percent |-> NEG_INFINITY,
                   profit_loss |-> F(0),
                   error |-> Some(result.val)])]

RECURSIVE AggregateLoop(_, _)
AggregateLoop(rs, acc) ==
    IF rs = <<>> THEN acc
    ELSE AggregateLoop(Tail(rs), AggregateStep(acc, Head(rs)[1], Head(rs)[2]))

Aggregate ==
    /\ pc = "aggregate"
    /\ LET acc == AggregateLoop(results,
                      [total_investment |-> F(0),
                       total_current_value |-> F(0),
                       position_data |-> <<>>])
       IN  /\ total_investment' = acc.total_investment
           /\ total_current_value' = acc.total_current_value
           /\ position_data' = acc.position_data
    /\ pc' = "sort"
    /\ UNCHANGED <<csv, positions, consolidated_positions, running, outcome,
                   results, position_lines, stdout, stderr, exit_code, request,
                   fetched>>

(***************************************************************************)
(* main(): the ranking (main.rs:160-161)                                   *)
(***************************************************************************)
\* the closure given to sort_by
Compare(a, b) ==
    LET c == PartialCmp(b.change_percent, a.change_percent)
    IN  IF c = "None" THEN "Equal" ELSE c

\* sort_by's is_less
IsLess(a, b) == Compare(a, b) = "Less"

\* the standard library's stable sort of a slice of at most 20 elements is
\* an insertion sort: each element in turn moves left past the elements it
\* is less than, and stops at the first it is not less than
RECURSIVE InsertTail(_, _)
InsertTail(sorted, x) ==
    IF sorted = <<>> \/ ~IsLess(x, sorted[Len(sorted)])
    THEN Append(sorted, x)
    ELSE Append(InsertTail(SubSeq(sorted, 1, Len(sorted) - 1), x),
                sorted[Len(sorted)])

RECURSIVE InsertionSort(_, _)
InsertionSort(v, sorted) ==
    IF v = <<>> THEN sorted
    ELSE InsertionSort(Tail(v), InsertTail(sorted, Head(v)))

sort_by(v) == InsertionSort(v, <<>>)

Sort ==
    /\ pc = "sort"
    /\ position_data' = sort_by(position_data)
    /\ pc' = "render"
    /\ UNCHANGED <<csv, positions, consolidated_positions, running, outcome,
                   results, total_investment, total_current_value,
                   position_lines, stdout, stderr, exit_code, request, fetched>>

(***************************************************************************)
(* main(): the report (main.rs:41-58, 163-214)                             *)
(***************************************************************************)
\* the decimal digits of n in groups of three, most significant first:
\* the text with its space separators (a group's leading zeros are not kept)
RECURSIVE Groups(_)
Groups(n) == IF n < 1000 THEN <<n>> ELSE Append(Groups(n \div 1000), n % 1000)

\* value.abs() as i64: truncation; NaN gives 0 and infinity gives i64::MAX
format_with_separator(value) ==
    LET abs_value == FAbs(value)
    IN  IF IsNaN(abs_value) THEN <<0>>
        ELSE IF abs_value.k = "inf" THEN <<9, 223, 372, 36, 854, 775, 807>>
        ELSE Groups(abs_value.n \div abs_value.d)

\* {:.2}: "NaN", "inf", "-inf", or the hundredths nearest the value (ties to
\* even) with its sign
Fmt2(x) ==
    IF IsNaN(x) THEN [text |-> "NaN", neg |-> FALSE, cents |-> 0]
    ELSE IF x.k = "inf"
         THEN [text |-> IF x.s = 1 THEN "inf" ELSE "-inf", neg |-> x.s = -1,
               cents |-> 0]
    ELSE LET q == (x.n * 100) \div x.d
             r == (x.n * 100) % x.d
             up == 2 * r > x.d \/ (2 * r = x.d /\ q % 2 = 1)
         IN  [text |-> "number", neg |-> x.s = -1,
              cents |-> IF up THEN q + 1 ELSE q]

PositionLine(d) ==
    IF d.error # None
    THEN [kind |-> "error", ticker |-> d.ticker, message |-> d.error[1],
          color |-> "darkred"]
    ELSE [kind |-> "position", ticker |-> d.ticker,
          buy_price |-> Fmt2(d.buy_price),
          current_price |-> Fmt2(d.current_price),
          profit_sign |-> IF GeZero(d.profit_loss) THEN "+" ELSE "-",
          profit |-> format_with_separator(d.profit_loss),
          percent_sign |-> IF GeZero(d.change_percent) THEN "+" ELSE "",
          percent |-> Fmt2(d.change_percent),
          color |-> IF GeZero(d.profit_loss) THEN "green" ELSE "darkred"]

Render ==
    /\ pc = "render"
    /\ position_lines' = [i \in DOMAIN position_data |->
                              PositionLine(position_data[i])]
    /\ pc' = "print"
    /\ UNCHANGED <<csv, positions, consolidated_positions, running, outcome,
                   results, total_investment, total_current_value,
                   position_data, stdout, stderr, exit_code, request, fetched>>

\* main.rs:191-201: the line shown in the menu bar
SummaryLine ==
    LET total_profit_loss == FSub(total_current_value, total_investment)
        total_change_percent ==
            FMul(FDiv(FSub(total_current_value, total_investment),
                      total_investment), F(100))
    IN  [kind |-> "summary",
         profit_sign |-> IF GeZero(total_profit_loss) THEN "+" ELSE "-",
         profit |-> format_with_separator(total_profit_loss),
         percent_sign |-> IF GeZero(total_change_percent) THEN "+" ELSE "",
         percent |-> Fmt2(total_change_percent)]

PrintReport ==
    /\ pc = "print"
    /\ stdout' = <<SummaryLine,
                   [kind |-> "separator"],
                   [kind |-> "investment",
                    amount |-> format_with_separator(total_investment)],
                   [kind |-> "current",
                    amount |-> format_with_separator(total_current_value)],
                   [kind |-> "separator"]>> \o position_lines
    /\ exit_code' = Some(0)
    /\ pc' = "done"
    /\ UNCHANGED <<csv, positions, consolidated_positions, running, outcome,
                   results, total_investment, total_current_value,
                   position_data, position_lines, stderr, request, fetched>>

\* one call of the library function on its own
Fetch ==
    /\ pc = "lib_call"
    /\ fetched' = fetch_latest_price(request.ticker, request.response)
    /\ pc' = "lib_done"
    /\ UNCHANGED <<csv, positions, consolidated_positions, running, outcome,
                   results, total_investment, total_current_value,
                   position_data, position_lines, stdout, stderr, exit_code,
                   request>>

(***************************************************************************)
(* Specifications                                                          *)
(***************************************************************************)
\* nothing fetched, nothing computed, nothing written
Blank ==
    /\ running = {}
    /\ outcome = NoOutcome
    /\ total_investment = F(0)
    /\ total_current_value = F(0)
    /\ position_data = <<>>
    /\ position_lines = <<>>
    /\ stdout = <<>>
    /\ stderr = <<>>
    /\ exit_code = None

NoRequest == [ticker |-> <<>>, response |-> SendError]

SeqsUpTo(S, n) == UNION {[1..m -> S] : m \in 0..n}

\* the whole program, on a small input file
Rows ==
    {Row(Position(t, b, s)) : t \in {<<"A">>, <<"a">>}, b \in {F(1), F(3)},
                              s \in {F(1), F(-1)}}

Files ==
    {Unreadable}
        \cup {File(TRUE, rows) : rows \in SeqsUpTo(Rows \cup {Malformed}, MaxRows)}

Init ==
    /\ pc = "load"
    /\ csv \in Files
    /\ positions = <<>>
    /\ consolidated_positions = <<>>
    /\ results = <<>>
    /\ Blank
    /\ request = NoRequest
    /\ fetched = Err(<<>>)

Next ==
    \/ Load
    \/ Consolidate
    \/ \E i \in DOMAIN consolidated_positions : FetchStart(i)
    \/ \E i \in DOMAIN consolidated_positions :
           FetchFinish(i, Responses(consolidated_positions[i].ticker))
    \/ FetchJoin
    \/ Aggregate
    \/ Sort
    \/ Render
    \/ PrintReport

Spec == Init /\ [][Next]_vars

\* the fetch phase alone, on up to MaxPositions consolidated positions
DigitChar(i) ==
    CASE i = 0 -> "0" [] i = 1 -> "1" [] i = 2 -> "2" [] i = 3 -> "3"
      [] i = 4 -> "4" [] i = 5 -> "5" [] i = 6 -> "6" [] i = 7 -> "7"
      [] i = 8 -> "8" [] i = 9 -> "9"

TickerName(i) == <<"s", DigitChar(i % 10)>>

InitFetch ==
    /\ pc = "fetch"
    /\ csv = File(TRUE, <<>>)
    /\ positions = <<>>
    /\ \E n \in 0..MaxPositions :
           consolidated_positions =
               [i \in 1..n |-> Position(TickerName(i), F(2), F(1))]
    /\ results = <<>>
    /\ Blank
    /\ request = NoRequest
    /\ fetched = Err(<<>>)

NextFetch ==
    \/ \E i \in DOMAIN consolidated_positions : FetchStart(i)
    \/ \E i \in DOMAIN consolidated_positions :
           FetchFinish(i, TwoResponses(consolidated_positions[i].ticker))
    \/ FetchJoin

SpecFetch == InitFetch /\ [][NextFetch]_vars

\* the aggregation, ranking and report alone, on up to MaxResults resolved
\* positions: buy prices and share counts consolidation can produce (the
\* last one from shares that sum to zero), and prices the source can serve
ResolvedPositions ==
    {<<F(0), F(1)>>, <<F(2), F(1)>>, <<F(2), F(3)>>, <<NaN, F(0)>>}

Outcomes == {Ok(F(0)), Ok(F(3)), Err(NotFound)}

InitAggregate ==
    /\ pc = "aggregate"
    /\ csv = File(TRUE, <<>>)
    /\ positions = <<>>
    /\ \E n \in 0..MaxResults :
         \E ps \in [1..n -> ResolvedPositions], os \in [1..n -> Outcomes] :
           /\ consolidated_positions =
                  [i \in 1..n |-> Position(TickerName(i), ps[i][1], ps[i][2])]
           /\ results =
                  [i \in 1..n |->
                      <<Position(TickerName(i), ps[i][1], ps[i][2]), os[i]>>]
    /\ Blank
    /\ request = NoRequest
    /\ fetched = Err(<<>>)

NextAggregate ==
    \/ Aggregate
    \/ Sort
    \/ Render
    \/ PrintReport

SpecAggregate == InitAggregate /\ [][NextAggregate]_vars

\* fetch_latest_price alone, on a ticker and a response
RequestTickers == {t \in [1..2 -> {"a", "A", "."}] : t[1] # "."}

SpanIds == [1..2 -> {"a", "b", "."}]

SpanValues == {<<"1">>, <<"1", ".", "5">>, <<".", "5">>}

Spans ==
    {Span(tk, attrs, val) : tk \in SpanIds, attrs \in {<<>>, <<"|">>},
                            val \in SpanValues}

InitExtract ==
    /\ pc = "lib_call"
    /\ csv = File(TRUE, <<>>)
    /\ positions = <<>>
    /\ consolidated_positions = <<>>
    /\ results = <<>>
    /\ Blank
    /\ \E ticker \in RequestTickers :
         \E response \in {SendError, Http(404, TRUE, <<>>), Http(200, FALSE, <<>>)}
                \cup {Http(200, TRUE, body) : body \in SeqsUpTo(Spans, MaxMarkers)} :
           request = [ticker |-> ticker, response |-> response]
    /\ fetched = Err(<<>>)

NextExtract == Fetch

SpecExtract == InitExtract /\ [][NextExtract]_vars

(***************************************************************************)
(* Properties                                                              *)
(***************************************************************************)
\* IEEE equality: NaN equals nothing, -0.0 equals 0.0
FEq(a, b) == PartialCmp(a, b) = "Equal"

Max(S) == CHOOSE m \in S : \A x \in S : x <= m

\* the sum of f[i] over the indices in I, taken in index order from 0.0
RECURSIVE SumOver(_, _)
SumOver(f, I) ==
    IF I = {} THEN F(0)
    ELSE LET m == Max(I) IN FAdd(SumOver(f, I \ {m}), f[m])

SameOutcome(a, b) == a.ok = b.ok /\ a.val = b.val

Fetched == pc \in {"aggregate", "sort", "render", "print", "done"}

\* C1: once the orchestrator has returned, no fetch is in flight, every
\* position's fetch has finished, and the result has exactly one entry per
\* consolidated position, entry i being position i paired with the outcome
\* of position i's own fetch, whatever the other fetches returned.
C1_OrchestratorKeepsEveryOutcome ==
    Fetched =>
        /\ running = {}
        /\ DOMAIN outcome = DOMAIN consolidated_positions
        /\ Len(results) = Len(consolidated_positions)
        /\ \A i \in DOMAIN results :
               /\ results[i][1] = consolidated_positions[i]
               /\ SameOutcome(results[i][2], outcome[i])

\* C1 witness: the orchestrator has returned for more positions than the
\* pool has threads, some of them failed and some succeeded.
C1_Witness ==
    /\ Fetched
    /\ Len(results) > NumThreads
    /\ \E i, j \in DOMAIN results : ~results[i][2].ok /\ results[j][2].ok

C8_LoadFailureAborts ==
    /\ (pc # "load" /\ ~load_positions_from_csv(csv).ok) =>
           /\ pc = "exited"
           /\ exit_code = Some(1)
           /\ running = {}
           /\ DOMAIN outcome = {}
           /\ position_lines = <<>>
           /\ stdout = <<>>
    /\ (running # {} \/ DOMAIN outcome # {}) =>
           /\ load_positions_from_csv(csv).ok
           /\ stderr = <<>>

\* C8 witness: the load has failed on the second row of a readable file.
C8_Witness ==
    /\ pc = "exited"
    /\ csv.readable
    /\ Len(csv.rows) = 2
    /\ csv.rows[1].valid
    /\ stderr # <<>>

Aggregated == pc \in {"sort", "render", "print", "done"}

Investments ==
    [i \in DOMAIN results |->
        FMul(results[i][1].buy_price, results[i][1].shares)]

CurrentValues ==
    [i \in DOMAIN results |->
        IF results[i][2].ok THEN FMul(results[i][2].val, results[i][1].shares)
        ELSE F(0)]

\* C3: after the aggregation, total_investment is the sum of
\* buy_price * shares over all the positions, failed or not, and
\* total_current_value is the sum of current_price * shares over the
\* succeeded positions only.
C3_Totals ==
    Aggregated =>
        /\ total_investment = SumOver(Investments, DOMAIN results)
        /\ total_current_value =
               SumOver(CurrentValues, {i \in DOMAIN results : results[i][2].ok})

\* C3 witness: the aggregation has run over a failed position with a
\* nonzero investment and a succeeded one, and the totals are numbers.
C3_Witness ==
    /\ Aggregated
    /\ \E i, j \in DOMAIN results :
           /\ ~results[i][2].ok
           /\ Investments[i].k = "fin" /\ ~IsZero(Investments[i])
           /\ results[j][2].ok
    /\ total_investment.k = "fin"
    /\ total_current_value.k = "fin" /\ ~IsZero(total_current_value)

Ranked == pc \in {"render", "print", "done"}

\* C2: in the ranked records every failed entry comes after every succeeded
\* entry, and no succeeded entry is followed by a succeeded entry whose
\* change_percent is not less than or equal to its own.
C2_FailedLastAndDescending ==
    Ranked =>
        \A i, j \in DOMAIN position_data :
            i < j =>
                /\ position_data[i].error # None => position_data[j].error # None
                /\ (position_data[i].error = None /\ position_data[j].error = None)
                       => PartialCmp(position_data[i].change_percent,
                                     position_data[j].change_percent)
                              \in {"Greater", "Equal"}

LessOrEqual(a, b) == Compare(a, b) \in {"Less", "Equal"}

\* C10: over the change_percent values of the records to rank, the
\* comparator is a total order: whenever a is not after b and b is not
\* after c, a is not after c, and a is before b exactly when b is after a.
C10_ComparatorIsTotalOrder ==
    pc = "sort" =>
        \A i, j, k \in DOMAIN position_data :
            LET a == position_data[i]
                b == position_data[j]
                c == position_data[k]
            IN  /\ (LessOrEqual(a, b) /\ LessOrEqual(b, c)) => LessOrEqual(a, c)
                /\ Compare(a, b) = "Less" <=> Compare(b, a) = "Greater"

Consolidated == pc \in {"fetch", "aggregate", "sort", "render", "print", "done"}

RowsOf(ticker) == {i \in DOMAIN positions : positions[i].ticker = ticker}

Costs == [i \in DOMAIN positions |-> FMul(positions[i].buy_price, positions[i].shares)]

Shares == [i \in DOMAIN positions |-> positions[i].shares]

\* C4: consolidation yields exactly one record per distinct ticker, whose
\* shares equal the sum of the ticker's input shares and whose
\* buy_price * shares equals the sum of the ticker's input
\* buy_price * shares.
C4_ConsolidationPreservesCost ==
    Consolidated =>
        /\ Len(consolidated_positions)
               = Cardinality({positions[i].ticker : i \in DOMAIN positions})
        /\ \A r \in DOMAIN positions :
               \E i \in DOMAIN consolidated_positions :
                   LET c == consolidated_positions[i]
                   IN  /\ c.ticker = positions[r].ticker
                       /\ \A j \in DOMAIN consolidated_positions :
                              consolidated_positions[j].ticker = c.ticker => j = i
                       /\ FEq(c.shares, SumOver(Shares, RowsOf(c.ticker)))
                       /\ FEq(FMul(c.buy_price, c.shares),
                              SumOver(Costs, RowsOf(c.ticker)))

\* C5: no consolidated record handed to the fetch and the aggregation has
\* a buy_price that is not a number (NaN, or the infinity of a division by
\* zero).
C5_NoUndefinedBuyPrice ==
    Consolidated =>
        \A i \in DOMAIN consolidated_positions :
            consolidated_positions[i].buy_price.k = "fin"

\* C6: when total_investment is zero, the percent of the summary line is
\* not the text of a NaN or of an infinity.
C6_NoDataPercent ==
    (pc = "done" /\ IsZero(total_investment)) =>
        stdout[1].percent.text \notin {"NaN", "inf", "-inf"}

HasMarkerFor(ticker, body) ==
    \E i \in DOMAIN body : to_lowercase(body[i].tk) = to_lowercase(ticker)

\* C7: when the page holds no price marker for the ticker, the fetch fails
\* with "Could not find price in response", whatever markers of other
\* tickers the page holds.
C7_NotFoundWithoutMarker ==
    (/\ pc = "lib_done"
     /\ request.response.kind = "http"
     /\ request.response.status = 200
     /\ request.response.utf8
     /\ ~HasMarkerFor(request.ticker, request.response.body))
        => (~fetched.ok /\ fetched.val = NotFound)
====
